---- MODULE Spec2Model ----
(***************************************************************************)
(* Model of media/image.go (go-start): the geometry of the sampling        *)
(* rectangle of an image version and the search-or-create protocol of      *)
(* Image.SourceRectVersion.                                                *)
(***************************************************************************)
EXTENDS Integers, Sequences, FiniteSets, TLC

(***************************************************************************)
(* float64 arithmetic.  A positive float64 is [m, e]: m is the 53 bit      *)
(* significand, 2^52 <= m < 2^53, and the value is m * 2^e.  Every         *)
(* operation rounds to nearest, ties to even, as Go's float64 operations   *)
(* do.  Only positive normal numbers occur.  A significand does not fit a  *)
(* 32 bit integer, so it is kept as five limbs of 15 bits, the most        *)
(* significant first.                                                      *)
(***************************************************************************)
MantBits == 53
LimbBits == 15
Base == 2^LimbBits
HalfBase == Base \div 2

\* the limbs a function on 1..5 gives
Limbs(f) == << f[1], f[2], f[3], f[4], f[5] >>

LimbsZero == << 0, 0, 0, 0, 0 >>

\* the number of bits of n, 0 <= n < 2^30
BitLen(n) == CHOOSE k \in 0..30 : n < 2^k /\ (k = 0 \/ 2^(k - 1) <= n)

\* the limbs of n, 0 <= n < 2^30, and the number limbs below 2^30 denote
NatLimbs(n) == << 0, 0, 0, n \div Base, n % Base >>
LimbsNat(a) == a[4] * Base + a[5]

RECURSIVE LimbsGeqFrom(_, _, _)
LimbsGeqFrom(a, b, i) ==
  IF i > 5 THEN TRUE
  ELSE IF a[i] # b[i] THEN a[i] > b[i]
  ELSE LimbsGeqFrom(a, b, i + 1)

LimbsGeq(a, b) == LimbsGeqFrom(a, b, 1)

\* a - b, for a >= b
LimbsSub(a, b) ==
  LET d5 == a[5] - b[5]
      d4 == a[4] - b[4] - (IF d5 < 0 THEN 1 ELSE 0)
      d3 == a[3] - b[3] - (IF d4 < 0 THEN 1 ELSE 0)
      d2 == a[2] - b[2] - (IF d3 < 0 THEN 1 ELSE 0)
      d1 == a[1] - b[1] - (IF d2 < 0 THEN 1 ELSE 0)
  IN  << (d1 + Base) % Base, (d2 + Base) % Base, (d3 + Base) % Base,
         (d4 + Base) % Base, (d5 + Base) % Base >>

\* 2 * a
LimbsDouble(a) ==
  << (2 * a[1] + a[2] \div HalfBase) % Base,
     (2 * a[2] + a[3] \div HalfBase) % Base,
     (2 * a[3] + a[4] \div HalfBase) % Base,
     (2 * a[4] + a[5] \div HalfBase) % Base,
     (2 * a[5]) % Base >>

\* a + 1
LimbsInc(a) ==
  Limbs([i \in 1..5 |->
    IF \A j \in (i + 1)..5 : a[j] = Base - 1 THEN (a[i] + 1) % Base ELSE a[i]])

\* a * k for 0 <= k < 2^15
RECURSIVE MulCarry(_, _, _)
MulCarry(a, k, i) ==
  IF i > 5 THEN 0 ELSE (a[i] * k + MulCarry(a, k, i + 1)) \div Base

LimbsMulSmall(a, k) ==
  Limbs([i \in 1..5 |-> (a[i] * k + MulCarry(a, k, i + 1)) % Base])

\* a shifted by s bits, s >= 0 (bits shifted out are lost)
LimbsShl(a, s) ==
  LET n == s \div LimbBits
      b == s % LimbBits
      w == Limbs([i \in 1..5 |-> IF i + n <= 5 THEN a[i + n] ELSE 0])
  IN  Limbs([i \in 1..5 |->
        ((w[i] * 2^b) % Base)
          + (IF i < 5 THEN w[i + 1] \div 2^(LimbBits - b) ELSE 0)])

LimbsShr(a, s) ==
  LET n == s \div LimbBits
      b == s % LimbBits
      w == Limbs([i \in 1..5 |-> IF i > n THEN a[i - n] ELSE 0])
  IN  Limbs([i \in 1..5 |->
        (w[i] \div 2^b)
          + (IF i > 1 THEN (w[i - 1] % 2^b) * 2^(LimbBits - b) ELSE 0)])

LimbsBitLen(a) ==
  IF a = LimbsZero THEN 0
  ELSE LET i == CHOOSE k \in 1..5 : a[k] # 0 /\ \A j \in 1..(k - 1) : a[j] = 0
       IN  BitLen(a[i]) + LimbBits * (5 - i)

\* the float64 of significand r and exponent e, r of MantBits bits or, after
\* a round up, of one more
Normalize(r, e) ==
  IF LimbsBitLen(r) > MantBits
  THEN [m |-> LimbsShr(r, 1), e |-> e + 1]
  ELSE [m |-> r, e |-> e]

\* to nearest, ties to even: q is rounded up when the part cut off, rest, is
\* more than half, or is half and q is odd
RoundsUp(rest, half, q) ==
  IF rest = half THEN q[5] % 2 = 1 ELSE LimbsGeq(rest, half)

\* q is p without its s low bits
RoundCut(p, e, s, q) ==
  Normalize(IF RoundsUp(LimbsSub(p, LimbsShl(q, s)),
                        LimbsShl(NatLimbs(1), s - 1), q)
            THEN LimbsInc(q) ELSE q,
            e + s)

\* n is the number of bits of p
RoundAt(p, e, n) ==
  IF n <= MantBits
  THEN [m |-> LimbsShl(p, MantBits - n), e |-> e - (MantBits - n)]
  ELSE RoundCut(p, e, n - MantBits, LimbsShr(p, n - MantBits))

\* Round the exact positive value p * 2^e to a float64: to nearest, ties to
\* even.
RoundLimbs(p, e) == RoundAt(p, e, LimbsBitLen(p))

\* the float64 0.0
FloatZero == [m |-> LimbsZero, e |-> 0]

\* float64(n) for an int n, 0 <= n < 2^30 (exact)
Float64(n) == IF n = 0 THEN FloatZero ELSE RoundLimbs(NatLimbs(n), 0)

\* x > y
FloatGt(x, y) ==
  IF x = FloatZero THEN FALSE
  ELSE IF y = FloatZero THEN TRUE
  ELSE \/ x.e > y.e
       \/ x.e = y.e /\ x.m # y.m /\ LimbsGeq(x.m, y.m)

\* x * y, where the significand of x or of y has at most 15 significant
\* bits (one factor is always the float64 of an image dimension): the exact
\* product, rounded
ShortBits == MantBits - LimbBits
IsShort(x) == LimbsShl(LimbsShr(x.m, ShortBits), ShortBits) = x.m

MulShort(a, b) ==
  RoundLimbs(LimbsMulSmall(b.m, LimbsNat(LimbsShr(a.m, ShortBits))),
             a.e + ShortBits + b.e)

FloatMul(x, y) ==
  IF x = FloatZero \/ y = FloatZero THEN FloatZero
  ELSE IF IsShort(x) THEN MulShort(x, y) ELSE MulShort(y, x)

\* x / y: long division of the significands, one quotient bit per step.
\* st is << quotient so far, remainder >>, d the divisor
RECURSIVE DivSteps(_, _, _)
DivSteps(st, d, n) ==
  IF n = 0 THEN st
  ELSE IF LimbsGeq(LimbsDouble(st[2]), d)
  THEN DivSteps(<< [LimbsDouble(st[1]) EXCEPT ![5] = @ + 1],
                   LimbsSub(LimbsDouble(st[2]), d) >>, d, n - 1)
  ELSE DivSteps(<< LimbsDouble(st[1]), LimbsDouble(st[2]) >>, d, n - 1)

\* the leading quotient bit and the MantBits - 1 = 4 * 13 steps after it;
\* a is the dividend, doubled when it is less than the divisor d
DivQuot(a, d) ==
  DivSteps(
    DivSteps(
      DivSteps(
        DivSteps(<< NatLimbs(1), LimbsSub(a, d) >>, d, 13),
        d, 13),
      d, 13),
    d, MantBits - 40)

\* the quotient qr[1] rounded by the remainder qr[2]
DivRound(qr, d, e) ==
  Normalize(IF RoundsUp(LimbsDouble(qr[2]), d, qr[1])
            THEN LimbsInc(qr[1]) ELSE qr[1],
            e)

FloatDiv(x, y) ==
  IF x = FloatZero THEN FloatZero
  ELSE IF LimbsGeq(x.m, y.m)
  THEN DivRound(DivQuot(x.m, y.m), y.m, x.e - y.e - (MantBits - 1))
  ELSE DivRound(DivQuot(LimbsDouble(x.m), y.m), y.m, x.e - y.e - MantBits)

\* int(x) for a float64 x: truncation toward zero (values below 2^30)
FloatToInt(x) ==
  IF x.e >= 0 THEN LimbsNat(LimbsShl(x.m, x.e)) ELSE LimbsNat(LimbsShr(x.m, 0 - x.e))

(***************************************************************************)
(* Bounds of the model.                                                    *)
(***************************************************************************)
\* image dimensions of the geometry checks: 1..MaxDim and OddDims, the
\* dimensions at which a float64 quotient or product is off its exact value
MaxDim == 4
OddDims == {7, 9, 11, 15}
GeomDims == (1..MaxDim) \cup OddDims

\* the search-or-create protocol: the number of versions an image may hold,
\* the size of the original and the sizes requested
MaxVersions == 3
OrigSizes == {<< 2, 1 >>}
ReqSizes == {<< 1, 1 >>, << 2, 1 >>}

\* the requested widths of the ratio tables: those of GeomDims, and 0, for
\* which the request's ratio is 0.0; and the sizes requested where a width
\* of 0 is passed
Widths == GeomDims \cup {0}
DimSizes == {<< 0, 1 >>, << 1, 1 >>}

(***************************************************************************)
(* image.Point, image.Rectangle, the alignments, the colours               *)
(***************************************************************************)
HorCenter == 0
Left == 1
Right == 2
HorAlignment == {HorCenter, Left, Right}

VerCenter == 0
Top == 1
Bottom == 2
VerAlignment == {VerCenter, Top, Bottom}

Point(px, py) == [X |-> px, Y |-> py]
Rect(x0, y0, x1, y1) == [Min |-> Point(x0, y0), Max |-> Point(x1, y1)]

\* Rectangle.Add
RectAdd(r, p) ==
  [Min |-> Point(r.Min.X + p.X, r.Min.Y + p.Y),
   Max |-> Point(r.Max.X + p.X, r.Max.Y + p.Y)]

\* Go's integer division: the quotient is truncated toward zero
GoDiv(a, b) == IF a >= 0 THEN a \div b ELSE 0 - ((0 - a) \div b)

\* color.RGBA{} and one opaque colour
Transparent == "rgba(0,0,0,0)"
Red == "rgba(255,0,0,255)"
Colors == {Transparent, Red}

\* the zero value of the OutsideColor field of an ImageVersion, and the
\* colour it denotes
ZeroColor == ""
ColorRGBA(c) == IF c = ZeroColor THEN Transparent ELSE c

\* v.OutsideColor.EqualsColor(c)
EqualsColor(stored, c) == ColorRGBA(stored) = c

(***************************************************************************)
(* ImageVersion and the accessors of Image; self is the Versions slice     *)
(***************************************************************************)
newImageVersion(sourceRect, width, height, grayscale) ==
  [SourceRect |-> sourceRect, Width |-> width, Height |-> height,
   Grayscale |-> grayscale, OutsideColor |-> ZeroColor]

\* the version NewImage creates for a decoded image of w x h pixels
NewImage(w, h, gray) == << newImageVersion(Rect(0, 0, w, h), w, h, gray) >>

Width(self) == self[1].Width
Height(self) == self[1].Height
Rectangle(self) == self[1].SourceRect
Grayscale(self) == self[1].Grayscale

\* float64(width) / float64(height), and the truncated products and
\* quotients of a dimension and such a ratio
Ratio ==
  [w \in Widths |-> [h \in GeomDims |-> FloatDiv(Float64(w), Float64(h))]]

TimesRatio ==
  [n \in GeomDims |-> [w \in Widths |-> [h \in GeomDims |->
     FloatToInt(FloatMul(Float64(n), Ratio[w][h]))]]]

OverRatio ==
  [n \in GeomDims |-> [w \in GeomDims |-> [h \in GeomDims |->
     FloatToInt(FloatDiv(Float64(n), Ratio[w][h]))]]]

\* ImageVersion.AspectRatio: Width / Height
VersionAspectRatio(v) == Ratio[v.Width][v.Height]

AspectRatio(self) == VersionAspectRatio(self[1])

\* AsHighAsOriginal that places Right as it places HorCenter
AsHighRightCentred(self, rectWidth, horAlign) ==
  RectAdd(Rect(0, 0, rectWidth, Height(self)),
          Point(IF horAlign = HorCenter \/ horAlign = Right
                THEN GoDiv(Width(self) - rectWidth, 2)
                ELSE 0,
                0))

\* line 120-127, 160-167: the rectangle is as high as the original and
\* rectWidth wide, placed by horAlign
AsHighAsOriginal(self, rectWidth, horAlign) ==
  RectAdd(Rect(0, 0, rectWidth, Height(self)),
          Point(IF horAlign = HorCenter THEN GoDiv(Width(self) - rectWidth, 2)
                ELSE IF horAlign = Right THEN Width(self) - rectWidth
                ELSE 0,
                0))

\* line 132-139, 150-157: the rectangle is as wide as the original and
\* rectHeight high, placed by verAlign
AsWideAsOriginal(self, rectHeight, verAlign) ==
  RectAdd(Rect(0, 0, Width(self), rectHeight),
          Point(0,
                IF verAlign = VerCenter THEN GoDiv(Height(self) - rectHeight, 2)
                ELSE IF verAlign = Bottom THEN Height(self) - rectHeight
                ELSE 0))

\* touchOriginalFromOutsideSourceRect with the comparison of line 116 turned
\* around
OutsideComparisonReversed(self, width, height, horAlign, verAlign) ==
  IF FloatGt(AspectRatio(self), Ratio[width][height])
  THEN AsHighAsOriginal(self, TimesRatio[Height(self)][width][height], horAlign)
  ELSE AsWideAsOriginal(self, OverRatio[Width(self)][width][height], verAlign)

touchOriginalFromOutsideSourceRect(self, width, height, horAlign, verAlign) ==
  IF FloatGt(Ratio[width][height], AspectRatio(self))
  THEN AsHighAsOriginal(self, TimesRatio[Height(self)][width][height], horAlign)
  ELSE AsWideAsOriginal(self, OverRatio[Width(self)][width][height], verAlign)

\* touchOriginalFromInsideSourceRect with the comparison of line 147 turned
\* around
InsideComparisonReversed(self, width, height, horAlign, verAlign) ==
  IF FloatGt(AspectRatio(self), Ratio[width][height])
  THEN AsWideAsOriginal(self, OverRatio[Width(self)][width][height], verAlign)
  ELSE AsHighAsOriginal(self, TimesRatio[Height(self)][width][height], horAlign)

touchOriginalFromInsideSourceRect(self, width, height, horAlign, verAlign) ==
  IF FloatGt(Ratio[width][height], AspectRatio(self))
  THEN AsWideAsOriginal(self, OverRatio[Width(self)][width][height], verAlign)
  ELSE AsHighAsOriginal(self, TimesRatio[Height(self)][width][height], horAlign)

(***************************************************************************)
(* State.  One Image; Goroutines call its methods.                         *)
(***************************************************************************)
VARIABLES
  Versions,    \* Image.Versions
  pc,          \* pc[g]: where goroutine g stands in SourceRectVersion
  req,         \* req[g]: the method g called, the alignments it was given
               \* (-1 when the method takes none) and the arguments of
               \* SourceRectVersion, grayscale as line 179 leaves it
  hdr,         \* hdr[g]: the slice append read at line 216
  version,     \* version[g]: the index line 217 points at
  ret,         \* ret[g]: what the last finished call of g returned
  trace,       \* trace[g]: the storage calls and the append of g's call,
               \* each with whether it succeeded
  before,      \* before[g]: Versions when g's call began
  again,       \* again[g]: how the call before it ended, when g's call
               \* repeats that call
  savedData,   \* the versions whose image data the backend holds
  savedImage   \* the Versions of the Image the backend saved last

vars == << Versions, pc, req, hdr, version, ret, trace, before, again,
           savedData, savedImage >>

Goroutines == {1, 2}

NoReq == [method |-> "none"]
NoRet == [im |-> 0, err |-> FALSE]
NoAgain == [same |-> FALSE]

InitImage(w, h, gray) ==
  /\ Versions = NewImage(w, h, gray)
  /\ pc = [g \in Goroutines |-> "idle"]
  /\ req = [g \in Goroutines |-> NoReq]
  /\ hdr = [g \in Goroutines |-> << >>]
  /\ version = [g \in Goroutines |-> 0]
  /\ ret = [g \in Goroutines |-> NoRet]
  /\ trace = [g \in Goroutines |-> << >>]
  /\ before = [g \in Goroutines |-> << >>]
  /\ again = [g \in Goroutines |-> NoAgain]
  /\ savedData = {1}
  /\ savedImage = << >>

\* the calls under way
Running == {g \in Goroutines : pc[g] # "idle"}

\* line 185-189: version v matches the request
Match(v, r) ==
  /\ v.SourceRect = r.sourceRect
  /\ v.Width = r.width
  /\ v.Height = r.height
  /\ EqualsColor(v.OutsideColor, r.outsideColor)
  /\ v.Grayscale = r.grayscale

\* SearchMatch with a scan that stops one version early
SearchMatchSkipsLast(self, r) ==
  IF \E i \in 1..(Len(self) - 1) : Match(self[i], r)
  THEN CHOOSE i \in 1..(Len(self) - 1) :
         Match(self[i], r) /\ \A j \in 1..(i - 1) : ~Match(self[j], r)
  ELSE 0

\* SearchMatch with a scan that keeps the last matching version
SearchMatchLast(self, r) ==
  IF \E i \in 1..Len(self) : Match(self[i], r)
  THEN CHOOSE i \in 1..Len(self) :
         Match(self[i], r) /\ \A j \in (i + 1)..Len(self) : ~Match(self[j], r)
  ELSE 0

\* line 183-193: the index of the first matching version, 0 when none matches
SearchMatch(self, r) ==
  IF \E i \in 1..Len(self) : Match(self[i], r)
  THEN CHOOSE i \in 1..Len(self) :
         Match(self[i], r) /\ \A j \in 1..(i - 1) : ~Match(self[j], r)
  ELSE 0

\* ForceGrayscale without lines 178-180
KeepGrayscale(self, grayscale) == grayscale

\* line 178-180
ForceGrayscale(self, grayscale) == IF Grayscale(self) THEN TRUE ELSE grayscale

\* AppendVersion that appends nothing when the slice holds a match of r
AppendVersionIfAbsent(slice, r) ==
  IF \E i \in 1..Len(slice) : Match(slice[i], r)
  THEN slice
  ELSE Append(slice,
              newImageVersion(r.sourceRect, r.width, r.height, r.grayscale))

\* AppendVersion that stores the new version in the last slot of the slice
AppendVersionOverLast(slice, r) ==
  [slice EXCEPT ![Len(slice)] =
     newImageVersion(r.sourceRect, r.width, r.height, r.grayscale)]

\* line 216: the slice append returns
AppendVersion(slice, r) ==
  Append(slice, newImageVersion(r.sourceRect, r.width, r.height, r.grayscale))

\* The call of SourceRectVersion by goroutine g, through method, up to the
\* search: lines 177-180.
Enter(g, method, align, sourceRect, width, height, grayscale, outsideColor) ==
  LET r == [method |-> method, horAlign |-> align[1], verAlign |-> align[2],
            sourceRect |-> sourceRect, width |-> width, height |-> height,
            grayscale |-> ForceGrayscale(Versions, grayscale),
            asked |-> grayscale, outsideColor |-> outsideColor]
  IN  /\ pc[g] = "idle"
      /\ Len(Versions) + Cardinality(Running) < MaxVersions
      /\ pc' = [pc EXCEPT ![g] = "search"]
      /\ req' = [req EXCEPT ![g] = r]
      /\ again' = [again EXCEPT ![g] =
                     IF r = req[g]
                     THEN [same |-> TRUE, ret |-> ret[g],
                           made |-> trace[g] # << >>,
                           len |-> Len(before[g])]
                     ELSE NoAgain]
      /\ trace' = [trace EXCEPT ![g] = << >>]
      /\ before' = [before EXCEPT ![g] = Versions]
      /\ ret' = [ret EXCEPT ![g] = NoRet]
      /\ UNCHANGED << Versions, hdr, version, savedData, savedImage >>

SourceRectVersion(g, sourceRect, width, height, grayscale, outsideColor) ==
  Enter(g, "SourceRectVersion", << -1, -1 >>, sourceRect, width, height,
        grayscale, outsideColor)

VersionTouchOrigFromOutside(g, width, height, horAlign, verAlign, grayscale, outsideColor) ==
  Enter(g, "VersionTouchOrigFromOutside", << horAlign, verAlign >>,
        touchOriginalFromOutsideSourceRect(Versions, width, height, horAlign,
                                           verAlign),
        width, height, grayscale, outsideColor)

Version(g, width, height, horAlign, verAlign, grayscale) ==
  Enter(g, "Version", << horAlign, verAlign >>,
        touchOriginalFromInsideSourceRect(Versions, width, height, horAlign,
                                          verAlign),
        width, height, grayscale, Transparent)

\* g returns (im, err)
Return(g, im, err) ==
  /\ pc' = [pc EXCEPT ![g] = "idle"]
  /\ ret' = [ret EXCEPT ![g] = [im |-> im, err |-> err]]

\* line 183-193: the search for an exact match
Search(g) ==
  /\ pc[g] = "search"
  /\ LET i == SearchMatch(Versions, req[g])
     IN  IF i # 0
         THEN Return(g, i, FALSE)
         ELSE /\ pc' = [pc EXCEPT ![g] = "load"]
              /\ UNCHANGED ret
  /\ UNCHANGED << Versions, req, hdr, version, trace, before, again,
                  savedData, savedImage >>

\* LoadImage without the return of line 198
LoadImageIgnoringError(g, ok) ==
  /\ pc[g] = "load"
  /\ trace' = [trace EXCEPT ![g] = Append(@, << "LoadImage", ok >>)]
  /\ pc' = [pc EXCEPT ![g] = "append"]
  /\ UNCHANGED << Versions, req, hdr, version, ret, before, again, savedData,
                  savedImage >>

\* line 196-215: the original is loaded, and resized or replaced by a canvas
\* of the outside colour
LoadImage(g, ok) ==
  /\ pc[g] = "load"
  /\ trace' = [trace EXCEPT ![g] = Append(@, << "LoadImage", ok >>)]
  /\ IF ok
     THEN /\ pc' = [pc EXCEPT ![g] = "append"]
          /\ UNCHANGED ret
     ELSE Return(g, 0, TRUE)
  /\ UNCHANGED << Versions, req, hdr, version, before, again, savedData,
                  savedImage >>

\* line 216: append reads self.Versions ...
AppendRead(g) ==
  /\ pc[g] = "append"
  /\ hdr' = [hdr EXCEPT ![g] = Versions]
  /\ pc' = [pc EXCEPT ![g] = "assign"]
  /\ UNCHANGED << Versions, req, version, ret, trace, before, again,
                  savedData, savedImage >>

\* ... and its result is assigned to self.Versions
AppendAssign(g) ==
  /\ pc[g] = "assign"
  /\ Versions' = AppendVersion(hdr[g], req[g])
  /\ trace' = [trace EXCEPT ![g] = Append(@, << "append", TRUE >>)]
  /\ pc' = [pc EXCEPT ![g] = "take"]
  /\ UNCHANGED << req, hdr, version, ret, before, again, savedData,
                  savedImage >>

\* TakeVersion that goes on to line 222, past version.SaveImage
TakeVersionSkippingSave(g) ==
  /\ pc[g] = "take"
  /\ version' = [version EXCEPT ![g] = Len(Versions)]
  /\ pc' = [pc EXCEPT ![g] = "saveImage"]
  /\ UNCHANGED << Versions, req, hdr, ret, trace, before, again, savedData,
                  savedImage >>

\* line 217: version := &self.Versions[len(self.Versions)-1]
TakeVersion(g) ==
  /\ pc[g] = "take"
  /\ version' = [version EXCEPT ![g] = Len(Versions)]
  /\ pc' = [pc EXCEPT ![g] = "saveData"]
  /\ UNCHANGED << Versions, req, hdr, ret, trace, before, again, savedData,
                  savedImage >>

\* SaveImageData without the return of line 220
SaveImageDataIgnoringError(g, ok) ==
  /\ pc[g] = "saveData"
  /\ trace' = [trace EXCEPT ![g] = Append(@, << "version.SaveImage", ok >>)]
  /\ savedData' = IF ok THEN savedData \cup {version[g]} ELSE savedData
  /\ pc' = [pc EXCEPT ![g] = "saveImage"]
  /\ UNCHANGED << Versions, req, hdr, version, ret, before, again,
                  savedImage >>

\* line 218-221: version.SaveImage(versionImage)
SaveImageData(g, ok) ==
  /\ pc[g] = "saveData"
  /\ trace' = [trace EXCEPT ![g] = Append(@, << "version.SaveImage", ok >>)]
  /\ IF ok
     THEN /\ savedData' = savedData \cup {version[g]}
          /\ pc' = [pc EXCEPT ![g] = "saveImage"]
          /\ UNCHANGED ret
     ELSE /\ Return(g, 0, TRUE)
          /\ UNCHANGED savedData
  /\ UNCHANGED << Versions, req, hdr, version, before, again, savedImage >>

\* line 222-226: Config.Backend.SaveImage(self)
BackendSaveImage(g, ok) ==
  /\ pc[g] = "saveImage"
  /\ trace' = [trace EXCEPT ![g] = Append(@, << "Backend.SaveImage", ok >>)]
  /\ IF ok
     THEN /\ savedImage' = Versions
          /\ Return(g, version[g], FALSE)
     ELSE /\ Return(g, 0, TRUE)
          /\ UNCHANGED savedImage
  /\ UNCHANGED << Versions, req, hdr, version, before, again, savedData >>

\* the steps of a call after its entry
Step(g) ==
  \/ Search(g)
  \/ \E ok \in BOOLEAN : LoadImage(g, ok)
  \/ AppendRead(g)
  \/ AppendAssign(g)
  \/ TakeVersion(g)
  \/ \E ok \in BOOLEAN : SaveImageData(g, ok)
  \/ \E ok \in BOOLEAN : BackendSaveImage(g, ok)

(***************************************************************************)
(* Spec: the calls of one goroutine, one at a time.                        *)
(***************************************************************************)
Init ==
  \E size \in OrigSizes, gray \in BOOLEAN : InitImage(size[1], size[2], gray)

\* the alignments the calls of the protocol pass: << horAlign, verAlign >>
CallAlignments == {<< HorCenter, VerCenter >>, << Right, Bottom >>}

Call(g) ==
  \E size \in ReqSizes, grayscale \in BOOLEAN :
    \/ \E align \in CallAlignments :
         Version(g, size[1], size[2], align[1], align[2], grayscale)
    \/ \E align \in CallAlignments, outsideColor \in Colors :
         VersionTouchOrigFromOutside(g, size[1], size[2], align[1], align[2],
                                     grayscale, outsideColor)
    \/ \E outsideColor \in Colors :
         SourceRectVersion(g, Rectangle(Versions), size[1], size[2],
                           grayscale, outsideColor)

Next == Call(1) \/ Step(1)

Spec == Init /\ [][Next]_vars

(***************************************************************************)
(* SpecGeom: the sampling rectangle.  The original has any size of         *)
(* GeomDims; Version and VersionTouchOrigFromOutside are called with any   *)
(* size of GeomDims and any alignment, and req[1].sourceRect is the        *)
(* rectangle they pass to SourceRectVersion.                               *)
(***************************************************************************)
InitGeom == \E w \in GeomDims, h \in GeomDims : InitImage(w, h, FALSE)

CallGeom(g) ==
  \E width \in GeomDims, height \in GeomDims,
     horAlign \in HorAlignment, verAlign \in VerAlignment :
    \/ Version(g, width, height, horAlign, verAlign, FALSE)
    \/ VersionTouchOrigFromOutside(g, width, height, horAlign, verAlign,
                                   FALSE, Transparent)

NextGeom == CallGeom(1)

SpecGeom == InitGeom /\ [][NextGeom]_vars

(***************************************************************************)
(* SpecLive: the calls of Version by one goroutine that keeps running: a   *)
(* call under way takes its next step, since no step of lines 177-227      *)
(* waits for another goroutine.                                            *)
(***************************************************************************)
CallLive(g) ==
  \E size \in ReqSizes, align \in CallAlignments, grayscale \in BOOLEAN :
    Version(g, size[1], size[2], align[1], align[2], grayscale)

NextLive == CallLive(1) \/ Step(1)

SpecLive == Init /\ [][NextLive]_vars /\ WF_vars(Step(1))

(***************************************************************************)
(* SpecDims: Version is called with a width of 0 as well.                  *)
(***************************************************************************)
CallDims(g) ==
  \E size \in DimSizes, align \in CallAlignments, grayscale \in BOOLEAN :
    Version(g, size[1], size[2], align[1], align[2], grayscale)

NextDims == CallDims(1) \/ Step(1)

SpecDims == Init /\ [][NextDims]_vars

(***************************************************************************)
(* SpecConc: the goroutines call Version at the same time.  No lock guards *)
(* Image.Versions, so their steps interleave in any order.                 *)
(***************************************************************************)
CallConc(g) ==
  \E grayscale \in BOOLEAN :
    Version(g, 1, 1, HorCenter, VerCenter, grayscale)

NextConc == \E g \in Goroutines : CallConc(g) \/ Step(g)

SpecConc == Init /\ [][NextConc]_vars

(***************************************************************************)
(* The sampling rectangle (SpecGeom).                                      *)
(***************************************************************************)
\* goroutine 1 has called method, and its sampling rectangle is computed
Called(method) == pc[1] = "search" /\ req[1].method = method

\* the sampling rectangle of the call, its width and its height
SamplingRect == req[1].sourceRect
RectWidth == SamplingRect.Max.X - SamplingRect.Min.X
RectHeight == SamplingRect.Max.Y - SamplingRect.Min.Y

\* C1: the sampling rectangle Version computes lies within the bounds of the
\* original: 0 <= Min.X <= Max.X <= W and 0 <= Min.Y <= Max.Y <= H.
C1_FitInsideContained ==
  Called("Version") =>
    /\ 0 <= SamplingRect.Min.X
    /\ SamplingRect.Min.X <= SamplingRect.Max.X
    /\ SamplingRect.Max.X <= Width(Versions)
    /\ 0 <= SamplingRect.Min.Y
    /\ SamplingRect.Min.Y <= SamplingRect.Max.Y
    /\ SamplingRect.Max.Y <= Height(Versions)

\* Version has computed a rectangle that is smaller than the original and
\* does not start at its origin
C1_Witness ==
  /\ Called("Version")
  /\ SamplingRect.Min.X > 0
  /\ SamplingRect.Max.X < Width(Versions)
  /\ RectHeight = Height(Versions)

\* C5: the sampling rectangle VersionTouchOrigFromOutside computes contains
\* the bounds of the original: Min.X <= 0, Min.Y <= 0, Max.X >= W, Max.Y >= H.
C5_CoverContainsOriginal ==
  Called("VersionTouchOrigFromOutside") =>
    /\ SamplingRect.Min.X <= 0
    /\ SamplingRect.Min.Y <= 0
    /\ SamplingRect.Max.X >= Width(Versions)
    /\ SamplingRect.Max.Y >= Height(Versions)

\* C6: the sampling rectangle VersionTouchOrigFromOutside computes has the
\* aspect ratio width / height exactly: rectWidth * height = rectHeight * width.
C6_ExactAspectRatio ==
  Called("VersionTouchOrigFromOutside") =>
    RectWidth * req[1].height = RectHeight * req[1].width

\* C6 as amended: the sampling rectangle VersionTouchOrigFromOutside computes
\* has the aspect ratio width / height up to the truncation of int() and the
\* rounding of float64.  When the request is wider than the original
\* (width * H > height * W) the rectangle is as high as the original and its
\* width is at most H * width / height and at most one pixel below it;
\* otherwise it is as wide as the original and its height is at most
\* W * height / width and at most one pixel below it.
C6_AspectRatioTruncated ==
  Called("VersionTouchOrigFromOutside") =>
    IF req[1].width * Height(Versions) > req[1].height * Width(Versions)
    THEN /\ RectHeight = Height(Versions)
         /\ RectWidth * req[1].height <= Height(Versions) * req[1].width
         /\ RectWidth * req[1].height
              >= Height(Versions) * req[1].width - req[1].height
    ELSE /\ RectWidth = Width(Versions)
         /\ RectHeight * req[1].width <= Width(Versions) * req[1].height
         /\ RectHeight * req[1].width
              >= Width(Versions) * req[1].height - req[1].width

\* VersionTouchOrigFromOutside has computed a rectangle whose aspect ratio
\* is not the requested one
C6_Witness ==
  /\ Called("VersionTouchOrigFromOutside")
  /\ RectWidth * req[1].height # RectHeight * req[1].width
  /\ RectHeight = Height(Versions)
  /\ RectWidth > Width(Versions)

(***************************************************************************)
(* The search-or-create protocol, one call at a time (Spec).               *)
(***************************************************************************)
\* the call of goroutine g has returned
Returned(g) == pc[g] = "idle" /\ req[g] # NoReq

\* the call of g found no match: it went on to load the original
Missed(g) == trace[g] # << >>

\* the call of g repeats the call g made before it, which had found no match
\* and returned a version
RepeatsCreation(g) ==
  /\ again[g].same
  /\ again[g].made
  /\ ~again[g].ret.err

\* the names of the storage calls and the append of the call of g, in order
Calls(g) == [i \in 1..Len(trace[g]) |-> trace[g][i][1]]

\* the call of g made the storage call name, and it failed
Failed(g, name) == \E i \in 1..Len(trace[g]) : trace[g][i] = << name, FALSE >>

\* C2: a request that repeats a request which created a version returns that
\* version from Versions, appends nothing and makes no load and no
\* persistence call, whatever the outside colour.
C2_RepeatedRequestHits ==
  Returned(1) /\ RepeatsCreation(1) =>
    /\ ~ret[1].err
    /\ ret[1].im = again[1].ret.im
    /\ ~Missed(1)
    /\ Versions = before[1]

\* C3: no two entries of Versions hold the same tuple (SourceRect, Width,
\* Height, OutsideColor, Grayscale).
C3_KeysUnique ==
  \A i \in 1..Len(Versions) : \A j \in 1..Len(Versions) :
    Versions[i] = Versions[j] => i = j

\* C4: of two calls of Version in sequence with the same arguments that both
\* succeed, the second returns the version the first returned and creates
\* nothing; an Image that held only the original holds two versions after
\* them when the first call created one.
C4_VersionIdempotent ==
  /\ Returned(1)
  /\ req[1].method = "Version"
  /\ again[1].same
  /\ ~again[1].ret.err
  /\ ~ret[1].err
  => /\ ret[1].im = again[1].ret.im
     /\ ~Missed(1)
     /\ Versions = before[1]
     /\ (again[1].len = 1 /\ again[1].made => Len(Versions) = 2)

\* Version was called twice on an Image that held only the original; the
\* first call created a version and the second has returned
C4_Witness ==
  /\ Returned(1)
  /\ req[1].method = "Version"
  /\ RepeatsCreation(1)
  /\ again[1].len = 1
  /\ ret[1].im = 2
  /\ Len(Versions) = 2

\* C7: every version of an Image whose original is grayscale is grayscale,
\* and so is every version a call on it returns, also when the caller passed
\* grayscale = false.
C7_GrayscaleForced ==
  Grayscale(Versions) =>
    /\ \A i \in 1..Len(Versions) : Versions[i].Grayscale
    /\ \A g \in Goroutines :
         Returned(g) /\ ret[g].im # 0 => Versions[ret[g].im].Grayscale

\* a call that passed grayscale = false to an Image with a grayscale
\* original has created a version and returned it
C7_Witness ==
  /\ Grayscale(Versions)
  /\ Returned(1)
  /\ ~req[1].asked
  /\ Missed(1)
  /\ ret[1].im = Len(Versions)
  /\ ret[1].im > 1

\* C9: a call that found no match returns a version only if it saved the
\* bytes of the version and then the Image, both with success; when saving
\* the bytes fails it returns the error without saving the Image; when
\* saving the Image fails it returns the error; in both cases the version
\* it appended stays in Versions.
C9_PersistenceFailure ==
  Returned(1) /\ Missed(1) =>
    /\ ret[1].im # 0 =>
         /\ ~ret[1].err
         /\ trace[1] = << << "LoadImage", TRUE >>, << "append", TRUE >>,
                          << "version.SaveImage", TRUE >>,
                          << "Backend.SaveImage", TRUE >> >>
         /\ ret[1].im \in savedData
         /\ savedImage = Versions
    /\ Failed(1, "version.SaveImage") =>
         /\ ret[1] = [im |-> 0, err |-> TRUE]
         /\ Calls(1) = << "LoadImage", "append", "version.SaveImage" >>
         /\ Versions = AppendVersion(before[1], req[1])
    /\ Failed(1, "Backend.SaveImage") =>
         /\ ret[1] = [im |-> 0, err |-> TRUE]
         /\ Versions = AppendVersion(before[1], req[1])

\* a call has returned the error of saving the Image, after it appended a
\* version and saved its bytes
C9_Witness ==
  /\ Returned(1)
  /\ Failed(1, "Backend.SaveImage")
  /\ ret[1].err
  /\ Len(Versions) = Len(before[1]) + 1
  /\ Len(Versions) \in savedData

\* the bytes of version i and an Image that holds version i are saved
Persisted(i) == i \in savedData /\ i <= Len(savedImage)

\* C10: a call never returns, as a match of its search, a version that an
\* earlier call appended and whose bytes or Image were not saved.
C10_NoUnsavedMatch ==
  Returned(1) /\ ~Missed(1) /\ ret[1].im > 1 => Persisted(ret[1].im)

(***************************************************************************)
(* Concurrent calls (SpecConc).                                            *)
(***************************************************************************)
\* the versions that match the request r
Matching(r) == {i \in 1..Len(Versions) : Match(Versions[i], r)}

\* both goroutines called with the same key on the same Versions, neither
\* found a match, and both loaded, appended, saved and returned a version
BothCreated ==
  /\ Returned(1) /\ Returned(2)
  /\ req[1] = req[2]
  /\ before[1] = before[2]
  /\ Missed(1) /\ Missed(2)
  /\ ret[1].im # 0 /\ ret[2].im # 0

\* C8: two calls at the same time with the same key can both find no match,
\* both load, append and save; unless one append overwrote the other (both
\* read the same slice at line 216), the Image then holds two versions that
\* match the key.
C8_ConcurrentMissDuplicates ==
  BothCreated /\ hdr[1] # hdr[2] => Cardinality(Matching(req[1])) >= 2

\* both calls created a version for the same key, saved its bytes and saved
\* the Image, and the Image holds two versions that match the key
C8_Witness ==
  /\ BothCreated
  /\ \A g \in Goroutines :
       /\ Calls(g) = << "LoadImage", "append", "version.SaveImage",
                        "Backend.SaveImage" >>
       /\ ~Failed(g, "Backend.SaveImage")
  /\ Cardinality(Matching(req[1])) = 2
  /\ Len(Versions) = 3

(***************************************************************************)
(* The fit-inside rectangle in detail (SpecGeom).                          *)
(***************************************************************************)
\* the request of goroutine 1 is wider than the original: width / height >
\* W / H, in whole numbers
RequestWider ==
  req[1].width * Height(Versions) > req[1].height * Width(Versions)

\* the alignment opposite to horAlign
Opposite(horAlign) ==
  IF horAlign = Left THEN Right ELSE IF horAlign = Right THEN Left ELSE HorCenter

\* the rectangle Version computes for the request of goroutine 1 with the
\* opposite horizontal alignment
OppositeRect ==
  touchOriginalFromInsideSourceRect(Versions, req[1].width, req[1].height,
                                    Opposite(req[1].horAlign),
                                    req[1].verAlign)

\* C11: when the request is not wider than the original, the rectangles
\* Version computes for horAlign = Left and for horAlign = Right (same width,
\* height and verAlign) have the same width and height, and their Min.X sum
\* to W - rectWidth.
C11_AlignmentSymmetry ==
  Called("Version") /\ ~RequestWider /\ req[1].horAlign \in {Left, Right} =>
    /\ OppositeRect.Max.X - OppositeRect.Min.X = RectWidth
    /\ OppositeRect.Max.Y - OppositeRect.Min.Y = RectHeight
    /\ SamplingRect.Min.X + OppositeRect.Min.X = Width(Versions) - RectWidth

\* Version was called with horAlign = Right for a request that is not wider
\* than the original, and its rectangle is narrower than the original
C11_Witness ==
  /\ Called("Version")
  /\ ~RequestWider
  /\ req[1].horAlign = Right
  /\ SamplingRect.Min.X > 0
  /\ OppositeRect.Min.X = 0

\* C12: when the request is not wider than the original, the rectangle of
\* Version has height H and width floor(H * width / height), Min.Y = 0, and
\* Min.X = 0 for Left, W - rectWidth for Right, (W - rectWidth) div 2 for
\* HorCenter.
C12_FitInsideNotWider ==
  Called("Version") /\ ~RequestWider =>
    /\ RectHeight = Height(Versions)
    /\ RectWidth = (Height(Versions) * req[1].width) \div req[1].height
    /\ SamplingRect.Min.Y = 0
    /\ SamplingRect.Min.X =
         IF req[1].horAlign = Left THEN 0
         ELSE IF req[1].horAlign = Right THEN Width(Versions) - RectWidth
         ELSE (Width(Versions) - RectWidth) \div 2

\* C17: when the request is wider than the original, the rectangle of
\* Version has width W and height floor(W * height / width), Min.X = 0, and
\* Min.Y = 0 for Top, H - rectHeight for Bottom, (H - rectHeight) div 2 for
\* VerCenter.
C17_FitInsideWider ==
  Called("Version") /\ RequestWider =>
    /\ RectWidth = Width(Versions)
    /\ RectHeight = (Width(Versions) * req[1].height) \div req[1].width
    /\ SamplingRect.Min.X = 0
    /\ SamplingRect.Min.Y =
         IF req[1].verAlign = Top THEN 0
         ELSE IF req[1].verAlign = Bottom THEN Height(Versions) - RectHeight
         ELSE (Height(Versions) - RectHeight) \div 2

\* C19: the rectangle Version computes is at least one pixel wide and one
\* pixel high.
C19_FitInsideNotEmpty ==
  Called("Version") => RectWidth >= 1 /\ RectHeight >= 1

(***************************************************************************)
(* The version list and the steps of a request (Spec, SpecLive).           *)
(***************************************************************************)
\* C13: Versions is never empty, its first entry is the original, with
\* SourceRect (0,0)-(W,H), and no step shortens Versions or changes an entry
\* it already holds.
C13_AppendOnly ==
  /\ [](/\ Len(Versions) >= 1
        /\ Versions[1] = NewImage(Width(Versions), Height(Versions),
                                  Grayscale(Versions))[1])
  /\ [][/\ Len(Versions') >= Len(Versions)
        /\ \A i \in 1..Len(Versions) : Versions'[i] = Versions[i]]_vars

\* a call has returned after it appended a third version
C13_Witness ==
  /\ Returned(1)
  /\ Len(before[1]) >= 2
  /\ Len(Versions) = Len(before[1]) + 1
  /\ \A i \in 1..Len(before[1]) : Versions[i] = before[1][i]

\* C14: after the append of a miss, the last entry of Versions matches the
\* request: it holds the request's sourceRect, width, height, grayscale and
\* outsideColor.
C14_AppendedMatchesRequest ==
  pc[1] = "take" => Match(Versions[Len(Versions)], req[1])

\* the entries of Versions, as they were when the call of g began, that match
\* g's request
MatchedBefore(g) ==
  {i \in 1..Len(before[g]) : Match(before[g][i], req[g])}

\* the steps of a miss, in the order of lines 196-222
StepOrder ==
  << "LoadImage", "append", "version.SaveImage", "Backend.SaveImage" >>

\* C15 (order): the steps a call has taken are the first steps of StepOrder,
\* each but the last one successful, and a call that found a match has taken
\* none and left Versions as it was.
C15_Ordered ==
  /\ Len(trace[1]) <= Len(StepOrder)
  /\ Calls(1) = SubSeq(StepOrder, 1, Len(trace[1]))
  /\ \A i \in 1..(Len(trace[1]) - 1) : trace[1][i][2]
  /\ req[1] # NoReq /\ MatchedBefore(1) # {} =>
       trace[1] = << >> /\ Versions = before[1]

\* C15: the steps of a request happen in the order load, append, persist
\* bytes, persist aggregate, each only after the one before it succeeded; a
\* hit takes none of them; and every request returns.
C15_StepOrder ==
  /\ []C15_Ordered
  /\ (pc[1] # "idle") ~> (pc[1] = "idle")

\* a miss has returned after all four steps, the last one failing
C15_Witness ==
  /\ Returned(1)
  /\ Calls(1) = StepOrder
  /\ Failed(1, "Backend.SaveImage")

\* C16: a call returns an existing version exactly when an entry of Versions
\* matches the request on all five key fields, and then the matching entry
\* of the lowest index; when none matches it takes the create path, and on
\* success Versions grows by one.
C16_FirstMatchWins ==
  Returned(1) =>
    /\ ~Missed(1) <=> MatchedBefore(1) # {}
    /\ ~Missed(1) =>
         /\ ret[1].im \in MatchedBefore(1)
         /\ \A j \in MatchedBefore(1) : ret[1].im <= j
         /\ ~ret[1].err
         /\ Versions = before[1]
    /\ Missed(1) /\ ~ret[1].err =>
         /\ Len(Versions) = Len(before[1]) + 1
         /\ ret[1].im = Len(Versions)

\* a call returned the first of two matching versions
C16_Witness ==
  /\ Returned(1)
  /\ ~Missed(1)
  /\ Cardinality(MatchedBefore(1)) >= 2
  /\ ret[1].im = 1

\* C20: a call whose LoadImage failed returns the error, leaves Versions as
\* it was, has made no other storage call, and Versions holds no match of
\* its request.
C20_LoadFailureFrame ==
  Returned(1) /\ Failed(1, "LoadImage") =>
    /\ ret[1] = [im |-> 0, err |-> TRUE]
    /\ Versions = before[1]
    /\ trace[1] = << << "LoadImage", FALSE >> >>
    /\ SearchMatch(Versions, req[1]) = 0

\* a call's LoadImage failed after an earlier call had appended a version
C20_Witness ==
  /\ Returned(1)
  /\ Failed(1, "LoadImage")
  /\ Len(Versions) >= 2

(***************************************************************************)
(* Requests with a dimension that is not positive (SpecDims).              *)
(***************************************************************************)
\* C18: a call of Version with width <= 0 or height <= 0 returns an error
\* and appends nothing to Versions.
C18_NonPositiveRejected ==
  Returned(1) /\ (req[1].width <= 0 \/ req[1].height <= 0) =>
    ret[1].err /\ Versions = before[1]

====
